---- MODULE Spec2Model ----
(***************************************************************************)
(* Verification model of robotsix_agents.                                  *)
(*                                                                         *)
(* Part 1: the orchestrator's streaming run (orchestrator/agent.py,        *)
(* OrchestratorAgent.run), the consumer loops that drive it                *)
(* (orchestrator/cli.py) and the turn-taking team it iterates.  The team   *)
(* (SelectorGroupChat) is not part of the source tree: its turn loop is    *)
(* modelled from sections 4.2 to 4.4 of the specification, parametrised    *)
(* by what _create_team passes to it.                                      *)
(***************************************************************************)
EXTENDS Integers, Sequences, FiniteSets, TLC

\* ------------------------------------------------------------------ bounds
\* Largest configured max_turns explored, and the number of turns explored
\* in a run that has no turn budget.
TurnCap == 2

\* Longest participant specification string explored by the parser.
MaxSpecLen == 5

VARIABLES
  cfg,             \* OrchestratorConfig: max_turns, participants, enable_user_proxy
  pc,              \* position of the run() generator
  participants,    \* names of the participants built by _create_participants
  produced,        \* everything the team stream has produced so far, in order
  taken,           \* how many of them run() has received from the stream
  delivered,       \* events run() has yielded to its caller, in order
  pending,         \* the TaskResult run() holds while the checkpoint is written
  teamPhase,       \* position of the team's turn loop
  turnCount,       \* completed turns
  selectCalls,     \* calls made to the selection model
  invocations,     \* participant invocations started
  speaker,         \* participant chosen for the current turn
  checkpointCalls, \* invocations of _save_to_interaction_memory
  memStore,        \* MemoryContent items handed to the memory sink
  failure,         \* which call raised, if any
  outcome,         \* Running / Completed / Failed / Interrupted
  sig,             \* where the run stood when a user interrupt arrived
  specInput,       \* the string handed to _parse_participant_spec
  parsed,          \* what _parse_participant_spec returned or raised, once called
  factoryCalls,    \* module names whose create_agent() was invoked, in order
  setupError,      \* the error _create_participants raised, if any
  fs,              \* TODO-AI.md of each repository directory
  repoPath,        \* the repository directory each coordinator was built for
  created,         \* coordinators whose task organizer has been created
  cwd,             \* the working directory of the process
  log,             \* add_todo calls made on each TODO file since it was last absent
  lastCall,        \* the last TodoManager or parser call and what it returned
  rtParticipants,  \* names of the repository team's participants, in order
  rtPhase,         \* position of the repository team's turn loop
  rtSelected,      \* the speakers selected so far, one per turn started
  rtHistory,       \* the messages of the repository team's conversation
  configFile,      \* config.yaml in the user's configuration directory
  pkgDefaults,     \* the package's default configuration of each agent
  cfgCall,         \* the last ConfigManager call and how it ended
  now,             \* the clock reading in the user's time zone
  period           \* the range get_events_period searched, or its failure

vars == <<cfg, pc, participants, produced, taken, delivered, pending, teamPhase,
          turnCount, selectCalls, invocations, speaker, checkpointCalls,
          memStore, failure, outcome, sig, specInput, parsed, factoryCalls,
          setupError, fs, repoPath, created, cwd, log, lastCall,
          rtParticipants, rtPhase, rtSelected, rtHistory, configFile,
          pkgDefaults, cfgCall, now, period>>

\* The variables of the orchestrator and its parser, of the repository
\* team's TODO list, and of everything but the orchestrator.
orchVars == <<cfg, pc, participants, produced, taken, delivered, pending,
              teamPhase, turnCount, selectCalls, invocations, speaker,
              checkpointCalls, memStore, failure, outcome, sig, specInput,
              parsed, factoryCalls, setupError>>
todoVars == <<fs, repoPath, created, cwd, log, lastCall>>
rteamVars == <<rtParticipants, rtPhase, rtSelected, rtHistory>>
cfgVars == <<configFile, pkgDefaults, cfgCall>>
calVars == <<now, period>>
auxVars == <<todoVars, rteamVars, cfgVars, calVars>>

\* ------------------------------------------------------------- data model

\* Optional[int]: None is the empty set, an integer n is {n}.
None == {}
Some(n) == {n}

\* Text is a sequence of words; a token is one word.
Contains(text, token) == \E i \in DOMAIN text : text[i] = token

\* What a participant may say: a message without either token (the lower-case
\* word is not the token), one containing BYE, one containing TERMINATE.
Contents == { <<"terminate">>, <<"so", "BYE">>, <<"all", "TERMINATE">> }

Event(kind, source, content) ==
  [kind |-> kind, source |-> source, content |-> content,
   messages |-> <<>>, stop_reason |-> ""]

TextMessage(source, content) == Event("Text", source, content)
SelectSpeakerEvent(name) == Event("SelectSpeaker", "selector", <<name>>)
ToolCallRequestEvent(source) == Event("ToolRequest", source, <<"call">>)
ToolCallExecutionEvent(source) == Event("ToolResult", source, <<"result">>)
GroupChatError(what) == Event("Error", what, <<"error">>)

TaskResult(messages, stop_reason) ==
  [kind |-> "TaskResult", source |-> "", content |-> <<>>,
   messages |-> messages, stop_reason |-> stop_reason]

IsTaskResult(e) == e.kind = "TaskResult"
IsChatMessage(e) == e.kind = "Text"

TaskMessage == TextMessage("user", <<"task">>)

\* ------------------------------------------- participant specifications

\* A specification string is a sequence of characters.
Letters == {"a", "b"}
Whitespace == {" "}
Brackets == {"[", "]"}
Chars == Letters \cup Whitespace \cup Brackets \cup {","}

\* str.strip(): leading and trailing whitespace removed.
RECURSIVE LStrip(_)
LStrip(s) ==
  IF s # <<>> /\ Head(s) \in Whitespace THEN LStrip(Tail(s)) ELSE s

RECURSIVE RStrip(_)
RStrip(s) ==
  IF s # <<>> /\ s[Len(s)] \in Whitespace
    THEN RStrip(SubSeq(s, 1, Len(s) - 1))
    ELSE s

Strip(s) == RStrip(LStrip(s))

\* str.split(sep): the pieces between the separators, in order.
RECURSIVE Split(_, _)
Split(s, sep) ==
  IF \A i \in DOMAIN s : s[i] # sep THEN <<s>>
  ELSE LET k == CHOOSE i \in DOMAIN s :
                  s[i] = sep /\ \A j \in 1..(i - 1) : s[j] # sep
       IN <<SubSeq(s, 1, k - 1)>> \o Split(SubSeq(s, k + 1, Len(s)), sep)

\* The length of the longest prefix of s without a bracket: what the greedy
\* group ([^[\]]+) consumes.
RECURSIVE NameLen(_)
NameLen(s) ==
  IF s # <<>> /\ Head(s) \notin Brackets THEN 1 + NameLen(Tail(s)) ELSE 0

NoMatch == [matched |-> FALSE, group1 |-> <<>>, group2 |-> <<>>]

\* Mutation of ReMatch: the argument group accepts the empty string
\* ([^\]]* in place of [^\]]+).
ReMatchEmptyArgs(s) ==
  LET k == NameLen(s)
      n == Len(s)
  IN IF k = 0 THEN NoMatch
     ELSE IF k = n THEN [matched |-> TRUE, group1 |-> s, group2 |-> <<>>]
     ELSE IF /\ n >= k + 2
             /\ s[k + 1] = "["
             /\ s[n] = "]"
             /\ \A i \in (k + 2)..(n - 1) : s[i] # "]"
       THEN [matched |-> TRUE, group1 |-> SubSeq(s, 1, k),
             group2 |-> SubSeq(s, k + 2, n - 1)]
     ELSE NoMatch

\* re.match(r"^([^[\]]+)(?:\[([^\]]+)\])?$", s): group 1 is a non-empty run
\* of characters other than brackets; then either the string ends, or a "["
\* follows, then a non-empty run of characters other than "]" (group 2), then
\* "]" and the end of the string.
ReMatch(s) ==
  LET k == NameLen(s)
      n == Len(s)
  IN IF k = 0 THEN NoMatch
     ELSE IF k = n THEN [matched |-> TRUE, group1 |-> s, group2 |-> <<>>]
     ELSE IF /\ n >= k + 3
             /\ s[k + 1] = "["
             /\ s[n] = "]"
             /\ \A i \in (k + 2)..(n - 1) : s[i] # "]"
       THEN [matched |-> TRUE, group1 |-> SubSeq(s, 1, k),
             group2 |-> SubSeq(s, k + 2, n - 1)]
     ELSE NoMatch

NoError == [type |-> "", names |-> <<>>]

\* _parse_participant_spec: the pattern is matched against the stripped
\* string; no match raises ValueError naming the string as it was given;
\* the name is group 1 as matched, the parameters are the pieces of group 2
\* between commas, each stripped.
ParseParticipantSpec(participant_spec) ==
  LET match == ReMatch(Strip(participant_spec)) IN
  IF ~match.matched
    THEN [ok |-> FALSE, agent_name |-> <<>>, params |-> <<>>,
          error |-> [type |-> "ValueError", names |-> participant_spec]]
    ELSE [ok |-> TRUE,
          agent_name |-> match.group1,
          params |-> IF match.group2 # <<>>
                       THEN LET pieces == Split(match.group2, ",")
                            IN [i \in DOMAIN pieces |-> Strip(pieces[i])]
                       ELSE <<>>,
          error |-> NoError]

\* ---------------------------------------------------------- configuration

\* OrchestratorConfig.max_turns is Optional[int]: None (no turn budget) is
\* accepted as well as any integer.  Zero and negative numbers pass the type
\* check too; no turn can be taken within such a budget, so they are left out
\* of the configurations explored.
MaxTurnsValues == {None} \cup { Some(n) : n \in 1..TurnCap }

\* Participant specification strings used in configurations.
SpecWorker == <<"w", "o", "r", "k", "e", "r">>
SpecMemory == <<"i", "n", "t", "e", "r", "a", "c", "t", "i", "o", "n", "_", "m", "e", "m", "o", "r", "y">>
SpecOrchestrator == <<"o", "r", "c", "h", "e", "s", "t", "r", "a", "t", "o", "r">>
SpecGit == <<"g", "i", "t", "[", "r", "e", "p", "o", "]">>
SpecGitUnclosed == <<"g", "i", "t", "[", "r", "e", "p", "o">>

\* OrchestratorConfig.participants: lists that resolve, a list with a
\* malformed entry first or second, a list naming a module that does not
\* exist, and a list naming a module without create_agent().
ParticipantLists ==
  { <<SpecWorker>>,
    <<SpecWorker, SpecMemory>>,
    <<SpecGitUnclosed>>,
    <<SpecWorker, SpecGitUnclosed>>,
    <<SpecWorker, SpecGit>>,
    <<SpecOrchestrator, SpecWorker>> }

OrchestratorConfig ==
  [max_turns : MaxTurnsValues,
   participants : ParticipantLists,
   enable_user_proxy : BOOLEAN]

\* main(): a task on the command line runs run_task_with_streaming without
\* a user proxy, otherwise interactive_session runs with the user proxy.
Mode(c) == IF c.enable_user_proxy THEN "interactive" ELSE "single"

\* ------------------------------------------------- orchestrator/agent.py

\* importlib.import_module("robotsix_agents.<name>.agent"): the module
\* exists and has create_agent(), exists without it, or does not exist.
ModuleKind(agent_name) ==
  IF agent_name \in {SpecWorker, SpecMemory} THEN "factory"
  ELSE IF agent_name = SpecOrchestrator THEN "no_create_agent"
  ELSE "missing"

\* The name of the participant a module's create_agent() builds.
ParticipantName(agent_name) ==
  IF agent_name = SpecMemory THEN "interaction_memory" ELSE "worker"

\* The error a factory raises, as it raises it: it knows nothing of the
\* participant specification.
FactoryError == [type |-> "FactoryError", names |-> <<>>]

\* Mutation of CreateParticipantFromModule: a name that resolves to no
\* factory is passed over with a placeholder instead of raising.
CreateParticipantFromModuleLenient(agent_name, params, raises) ==
  IF ModuleKind(agent_name) # "factory"
    THEN [ok |-> TRUE, called |-> FALSE, participant |-> "none", error |-> NoError]
  ELSE IF raises
    THEN [ok |-> FALSE, called |-> TRUE, participant |-> "", error |-> FactoryError]
  ELSE [ok |-> TRUE, called |-> TRUE,
        participant |-> ParticipantName(agent_name), error |-> NoError]

\* _create_participant_from_module: the module is imported and its
\* create_agent() called with the parameters; ImportError, the
\* AttributeError for a missing create_agent() and whatever the factory
\* raises are logged and re-raised as they are.
CreateParticipantFromModule(agent_name, params, raises) ==
  CASE ModuleKind(agent_name) = "missing" ->
         [ok |-> FALSE, called |-> FALSE, participant |-> "",
          error |-> [type |-> "ImportError", names |-> agent_name]]
    [] ModuleKind(agent_name) = "no_create_agent" ->
         [ok |-> FALSE, called |-> FALSE, participant |-> "",
          error |-> [type |-> "AttributeError", names |-> agent_name]]
    [] OTHER ->
         IF raises
           THEN [ok |-> FALSE, called |-> TRUE, participant |-> "",
                 error |-> FactoryError]
           ELSE [ok |-> TRUE, called |-> TRUE,
                 participant |-> ParticipantName(agent_name), error |-> NoError]

\* _create_participants, the loop: each entry is parsed and then built
\* before the next entry is looked at; the first error ends the loop.
\* failAt is the position of the entry whose factory raises (0: none does).
RECURSIVE CreateLoop(_, _, _, _)
CreateLoop(specs, failAt, i, acc) ==
  IF i > Len(specs) THEN acc
  ELSE LET p == ParseParticipantSpec(specs[i]) IN
       IF ~p.ok THEN [acc EXCEPT !.ok = FALSE, !.error = p.error]
       ELSE LET r == CreateParticipantFromModule(p.agent_name, p.params, failAt = i)
                calls == IF r.called THEN Append(acc.calls, p.agent_name)
                                     ELSE acc.calls
            IN IF ~r.ok
                 THEN [acc EXCEPT !.ok = FALSE, !.error = r.error, !.calls = calls]
                 ELSE CreateLoop(specs, failAt, i + 1,
                        [acc EXCEPT !.participants = Append(@, r.participant),
                                    !.calls = calls])

\* _create_participants: one participant per configured entry, in order,
\* then the user proxy when it is enabled.
CreateParticipants(c, failAt) ==
  LET r == CreateLoop(c.participants, failAt, 1,
             [ok |-> TRUE, participants |-> <<>>, calls |-> <<>>, error |-> NoError])
  IN IF r.ok /\ c.enable_user_proxy
       THEN [r EXCEPT !.participants = Append(@, "user_proxy")]
       ELSE r

\* Mutation of TerminationCondition: the sources filter is left out.
TerminationConditionAnySource(c) ==
  IF c.enable_user_proxy
    THEN [token |-> "BYE", anySource |-> TRUE, sources |-> {}]
    ELSE [token |-> "TERMINATE", anySource |-> TRUE, sources |-> {}]

\* Mutation of TerminationCondition: the sources filter is applied in both
\* modes.
TerminationConditionSourceBound(c) ==
  [token |-> IF c.enable_user_proxy THEN "BYE" ELSE "TERMINATE",
   anySource |-> FALSE, sources |-> {"user_proxy"}]

\* _create_team: the termination condition handed to the team.
TerminationCondition(c) ==
  IF c.enable_user_proxy
    THEN [token |-> "BYE", anySource |-> FALSE, sources |-> {"user_proxy"}]
    ELSE [token |-> "TERMINATE", anySource |-> TRUE, sources |-> {}]

\* Mutation of TeamMaxTurns: max_turns is not passed to the team.
TeamMaxTurnsOmitted(c) == None

\* _create_team: max_turns=self.config.max_turns.
TeamMaxTurns(c) == c.max_turns

\* Mutation of GetInteractionMemoryAgent: any participant is taken for the
\* memory sink.
GetInteractionMemoryAgentAny(parts) == DOMAIN parts

\* _get_interaction_memory_agent: the participants named interaction_memory.
GetInteractionMemoryAgent(parts) ==
  { i \in DOMAIN parts : parts[i] = "interaction_memory" }

\* _save_to_interaction_memory: "source: content" for every chat message of
\* the result; agent events (tool request, tool result, speaker selection)
\* are not chat messages and are skipped.
\* Mutation of MessagesContent: every message is formatted, whatever its kind.
MessagesContentAll(msgs) ==
  [i \in 1..Len(msgs) |-> <<msgs[i].source, ":", msgs[i].content>>]

RECURSIVE MessagesContent(_)
MessagesContent(msgs) ==
  IF msgs = <<>> THEN <<>>
  ELSE LET m == Head(msgs) IN
       (IF IsChatMessage(m) THEN << <<m.source, ":", m.content>> >> ELSE <<>>)
         \o MessagesContent(Tail(msgs))

MemoryContent(task_result) ==
  [content |-> <<"Conversation summary:">> \o MessagesContent(task_result.messages),
   source |-> "orchestrator",
   stop_reason |-> task_result.stop_reason]

\* run: the TaskResult built in the KeyboardInterrupt handler.
InterruptResult ==
  TaskResult(<<TextMessage("system", <<"Task was interrupted by user.">>)>>,
             "User interruption")

\* Mutations of Yield: the event is handed over twice; the event overtakes
\* the events already handed over.
YieldTwice(stream, event) == Append(Append(stream, event), event)
YieldFirst(stream, event) == <<event>> \o stream

\* run: `yield event` hands one event to the caller.
Yield(stream, event) == Append(stream, event)

\* ------------------------------------------------- the team's turn loop

\* Termination evaluator (spec 4.2): the token is a substring of the content
\* and the source is allowed.
Evaluate(cond, msg) ==
  /\ Contains(msg.content, cond.token)
  /\ (cond.anySource \/ msg.source \in cond.sources)

StopReasonMatched(cond) == "Text mention: " \o cond.token
StopReasonMaxTurns == "max turns reached"

\* Spec 4.4 step 1: the turn budget is spent.
BudgetSpent(budget, turns) == \E n \in budget : turns >= n

\* What the team's final event carries: every event it produced.
FinalEvent(events, reason) == TaskResult(events, reason)

\* ------------------------------------- repository_team/task_organizer
\* TODO-AI.md is a sequence of lines, a line a sequence of characters (a
\* word that holds no bracket stands for its characters).

Coordinators == {1, 2}
Paths == {"repoA", "repoB"}

\* Most tasks explored at a time, over all TODO files together.
MaxTasks == 2

NoFile == [exists |-> FALSE, lines |-> <<>>]
File(lines) == [exists |-> TRUE, lines |-> lines]

HeaderLine == <<"#", " ", "AI-Managed TODO List">>
Box == <<"-", " ", "[">>
OpenBox == <<"-", " ", "[", " ", "]">>
DoneBox == <<"-", " ", "[", "x", "]">>

\* A task text is its lines: one line, or a text with a line break in it.
TaskOne == << <<"a">> >>
TaskWithSubItem == << <<"b">>, OpenBox \o <<" ", "c">> >>
Tasks == {TaskOne, TaskWithSubItem}

\* create_agent: the initial task.
InitialTask == << <<"Check the git branch">> >>

\* What was at the path before the team was built.
StaleFile ==
  File(<<HeaderLine, <<>>, DoneBox \o <<" ", "old">>, OpenBox \o <<" ", "older">>>>)

\* str.startswith
StartsWith(s, prefix) ==
  /\ Len(s) >= Len(prefix)
  /\ SubSeq(s, 1, Len(prefix)) = prefix

\* str.find: the first position of old in s, 0 when there is none.
Find(s, old) ==
  LET hits == { i \in 1..(Len(s) - Len(old) + 1) :
                  SubSeq(s, i, i + Len(old) - 1) = old }
  IN IF hits = {} THEN 0 ELSE CHOOSE i \in hits : \A j \in hits : i <= j

\* str.replace(old, new, 1)
ReplaceFirst(s, old, new) ==
  LET i == Find(s, old)
  IN IF i = 0 THEN s
     ELSE SubSeq(s, 1, i - 1) \o new \o SubSeq(s, i + Len(old), Len(s))

\* TodoManager.add_todo: the file is opened for appending (created when
\* absent); the header is written when the position is 0, then the item.
AddTodo(file, task) ==
  LET old == IF file.exists THEN file.lines ELSE <<>>
      header == IF old = <<>> THEN <<HeaderLine, <<>>>> ELSE <<>>
  IN [file |-> File(old \o header \o <<OpenBox \o <<" ">> \o Head(task)>> \o Tail(task)),
      result |-> "added"]

\* mark_task_done: todo_items_indices.
TodoItemsIndices(lines) ==
  SelectSeq([i \in 1..Len(lines) |-> i],
            LAMBDA i : StartsWith(Strip(lines[i]), Box))

\* Mutation of MarkTaskDone: the task number is taken as a line number.
MarkTaskDoneByLine(file, task_number) ==
  IF ~file.exists THEN [file |-> file, result |-> "not_found"]
  ELSE IF ~(1 <= task_number /\ task_number <= Len(file.lines))
    THEN [file |-> file, result |-> "invalid"]
  ELSE [file |-> File([file.lines EXCEPT ![task_number] =
                          ReplaceFirst(@, OpenBox, DoneBox)]),
        result |-> "marked"]

\* TodoManager.mark_task_done
MarkTaskDone(file, task_number) ==
  IF ~file.exists THEN [file |-> file, result |-> "not_found"]
  ELSE LET lines == file.lines
           todo_items_indices == TodoItemsIndices(lines)
       IN IF ~(1 <= task_number /\ task_number <= Len(todo_items_indices))
            THEN [file |-> file, result |-> "invalid"]
          ELSE LET line_to_modify_index == todo_items_indices[task_number]
                   line_to_modify == lines[line_to_modify_index]
               IN IF StartsWith(Strip(line_to_modify), DoneBox)
                    THEN [file |-> file, result |-> "already_done"]
                    ELSE [file |-> File([lines EXCEPT ![line_to_modify_index] =
                                  ReplaceFirst(line_to_modify, OpenBox, DoneBox)]),
                          result |-> "marked"]

\* Mutation of DeleteTodoFile: the file is emptied, not removed.
DeleteTodoFileTruncates(file) ==
  [file |-> IF file.exists THEN File(<<>>) ELSE file, result |-> "deleted"]

\* TodoManager.delete_todo_file
DeleteTodoFile(file) ==
  IF file.exists THEN [file |-> NoFile, result |-> "deleted"]
                 ELSE [file |-> file, result |-> "nothing_to_delete"]

NoCall == [who |-> 0, op |-> "", n |-> 0, result |-> ""]

TodoIdle ==
  /\ fs = [p \in Paths |-> NoFile]
  /\ repoPath = [c \in Coordinators |-> "repoA"]
  /\ created = {}
  /\ cwd = "launch"
  /\ log = [p \in Paths |-> <<>>]
  /\ lastCall = NoCall

\* ---------------------------------------------------------- core/config
\* config.yaml holds a RobotsixAgentsConfig: the default model provider and
\* a configuration per agent.  A provider is named by its class path; an
\* agent configuration maps keys to values.

AgentNames == {"worker"}
Keys == {"system_message", "model_provider"}

DefaultProvider == "autogen_ext.models.openai.OpenAIChatCompletionClient"
CustomProvider == "custom.Client"
PackageProvider == "package.Client"
MissingProvider == "missing.Client"

\* A value that is no ComponentModel at all.
NotAComponent == "42"

\* ConfigValidator.validate_provider_config: the class can be imported.
Importable(provider) == provider \in {DefaultProvider, CustomProvider, PackageProvider}

EmptyDict == [k \in {} |-> ""]

\* The package defaults an agent may ship with.
PackageDefaultValues ==
  { [k \in ks |-> IF k = "system_message" THEN "package text" ELSE PackageProvider] :
      ks \in SUBSET Keys }

\* What a user may have written under agents.
UserAgents ==
  {EmptyDict} \cup
    { [a \in AgentNames |->
         [k \in ks |-> IF k = "system_message" THEN "user text" ELSE provider]] :
        ks \in SUBSET Keys, provider \in {CustomProvider, MissingProvider} }

NoConfig == [exists |-> FALSE, default_model_provider |-> "", agents |-> EmptyDict]

ConfigOnDisk(provider, agents) ==
  [exists |-> TRUE, default_model_provider |-> provider, agents |-> agents]

NoCfgCall ==
  [op |-> "", arg |-> "", raised |-> "", config |-> EmptyDict, client |-> ""]

ConfigIdle ==
  /\ configFile = NoConfig
  /\ pkgDefaults = [a \in AgentNames |-> EmptyDict]
  /\ cfgCall = NoCfgCall

\* -------------------------------------------------- calendar_task/tools.py
Years == {2024, 2025}
FirstInstant == <<0, 0, 0, 0>>
LastInstant == <<23, 59, 59, 999999>>
Times == {FirstInstant, <<12, 30, 0, 0>>, LastInstant}

IsLeap(year) == (year % 4 = 0 /\ year % 100 # 0) \/ year % 400 = 0

DaysIn(year, month) ==
  IF month = 2 THEN (IF IsLeap(year) THEN 29 ELSE 28)
  ELSE IF month \in {4, 6, 9, 11} THEN 30
  ELSE 31

\* A date is <<year, month, day>>.
DateTime(date, time) == [date |-> date, time |-> time]

\* datetime.replace(year=..., month=...): the day is kept, and a day the
\* new month does not have raises ValueError.
Replace(dt, year, month) ==
  IF dt.date[3] <= DaysIn(year, month)
    THEN [raised |-> FALSE, value |-> DateTime(<<year, month, dt.date[3]>>, dt.time)]
    ELSE [raised |-> TRUE, value |-> dt]

\* dt - timedelta(days=1)
MinusOneDay(dt) ==
  LET year == dt.date[1]
      month == dt.date[2]
      day == dt.date[3]
  IN DateTime(IF day > 1 THEN <<year, month, day - 1>>
              ELSE IF month > 1 THEN <<year, month - 1, DaysIn(year, month - 1)>>
              ELSE <<year - 1, 12, 31>>,
              dt.time)

\* dt + timedelta(days=1)
PlusOneDay(dt) ==
  LET year == dt.date[1]
      month == dt.date[2]
      day == dt.date[3]
  IN DateTime(IF day < DaysIn(year, month) THEN <<year, month, day + 1>>
              ELSE IF month < 12 THEN <<year, month + 1, 1>>
              ELSE <<year + 1, 1, 1>>,
              dt.time)

Period(called, raised, at, start, end) ==
  [called |-> called, raised |-> raised, now |-> at, start |-> start, end |-> end]

NoPeriod ==
  LET dt == DateTime(<<2024, 1, 1>>, FirstInstant)
  IN Period(FALSE, FALSE, dt, dt, dt)

\* get_events_period("this_month") at clock reading dt: the range searched,
\* or the error the function returns when the computation raises.
ThisMonth(dt) ==
  LET start_dt == DateTime(<<dt.date[1], dt.date[2], 1>>, FirstInstant)
      next_month == IF dt.date[2] = 12
                      THEN Replace(dt, dt.date[1] + 1, 1)
                      ELSE Replace(dt, dt.date[1], dt.date[2] + 1)
  IN IF next_month.raised
       THEN Period(TRUE, TRUE, dt, start_dt, start_dt)
       ELSE Period(TRUE, FALSE, dt, start_dt,
                   DateTime(MinusOneDay(next_month.value).date, LastInstant))

CalendarIdle ==
  /\ now = NoPeriod.now
  /\ period = NoPeriod

RepoTeamIdle ==
  /\ rtParticipants = <<>>
  /\ rtPhase = "absent"
  /\ rtSelected = <<>>
  /\ rtHistory = <<>>

AuxIdle == TodoIdle /\ RepoTeamIdle /\ ConfigIdle /\ CalendarIdle

Range(s) == { s[i] : i \in DOMAIN s }

Init ==
  /\ cfg \in OrchestratorConfig
  /\ pc = "idle"
  /\ participants = <<>>
  /\ produced = <<>>
  /\ taken = 0
  /\ delivered = <<>>
  /\ pending = <<>>
  /\ teamPhase = "idle"
  /\ turnCount = 0
  /\ selectCalls = 0
  /\ invocations = 0
  /\ speaker = ""
  /\ checkpointCalls = 0
  /\ memStore = <<>>
  /\ failure = "none"
  /\ outcome = "Idle"
  /\ sig = [seen |-> FALSE, where |-> "", phase |-> "", turns |-> 0, inv |-> 0]
  /\ specInput = <<>>
  /\ parsed = <<>>
  /\ factoryCalls = <<>>
  /\ setupError = NoError
  /\ AuxIdle

\* run(task), up to the first await on the team stream: the participants and
\* the team are built, and run_stream(task) opens with the task message.
RunStart ==
  /\ pc = "idle"
  /\ \E failAt \in 0..Len(cfg.participants) :
       LET r == CreateParticipants(cfg, failAt) IN
         /\ r.ok
         /\ participants' = r.participants
         /\ factoryCalls' = r.calls
  /\ pc' = "awaiting"
  /\ produced' = <<TaskMessage>>
  /\ teamPhase' = "select"
  /\ outcome' = "Running"
  /\ UNCHANGED <<auxVars, cfg, specInput, parsed, setupError, taken, delivered, pending,
                 turnCount, selectCalls, invocations, speaker, checkpointCalls,
                 memStore, failure, sig>>

\* Mutation of RunSetupFails: the error is recorded but the run goes on with
\* the participants built so far.
RunSetupFailsSwallowed ==
  /\ pc = "idle"
  /\ \E failAt \in 0..Len(cfg.participants) :
       LET r == CreateParticipants(cfg, failAt) IN
         /\ ~r.ok
         /\ participants' = r.participants \o <<"worker">>
         /\ factoryCalls' = r.calls
         /\ setupError' = r.error
  /\ pc' = "awaiting"
  /\ produced' = <<TaskMessage>>
  /\ teamPhase' = "select"
  /\ outcome' = "Running"
  /\ UNCHANGED <<auxVars, cfg, specInput, parsed, taken, delivered, pending,
                 turnCount, selectCalls, invocations, speaker, checkpointCalls,
                 memStore, failure, sig>>

\* run(task) when _create_participants raises: the statement is outside the
\* try block, the error leaves run() on the caller's first request, before
\* the team exists and before anything is yielded.
RunSetupFails ==
  /\ pc = "idle"
  /\ \E failAt \in 0..Len(cfg.participants) :
       LET r == CreateParticipants(cfg, failAt) IN
         /\ ~r.ok
         /\ participants' = <<>>
         /\ factoryCalls' = r.calls
         /\ setupError' = r.error
  /\ pc' = "setup_failed"
  /\ outcome' = "SetupFailed"
  /\ failure' = "setup"
  /\ UNCHANGED <<auxVars, cfg, specInput, parsed, produced, taken, delivered, pending,
                 teamPhase, turnCount, selectCalls, invocations, speaker,
                 checkpointCalls, memStore, sig>>

\* The team only advances while run() is suspended on the stream.
TeamRuns == pc = "awaiting"

\* Step 1: the budget is spent, the team completes.
TeamBudget ==
  /\ TeamRuns
  /\ teamPhase = "select"
  /\ BudgetSpent(TeamMaxTurns(cfg), turnCount)
  /\ produced' = Append(produced, FinalEvent(produced, StopReasonMaxTurns))
  /\ teamPhase' = "finished"
  /\ UNCHANGED <<auxVars, cfg, specInput, parsed, factoryCalls, setupError, pc, participants, taken, delivered, pending, turnCount,
                 selectCalls, invocations, speaker, checkpointCalls, memStore,
                 failure, outcome, sig>>

\* Mutation of TeamSelect: the selector asks the model a second time.
TeamSelectRetried ==
  /\ TeamRuns
  /\ teamPhase = "select"
  /\ ~BudgetSpent(TeamMaxTurns(cfg), turnCount)
  /\ turnCount < TurnCap
  /\ \E name \in Range(participants) :
       /\ speaker' = name
       /\ produced' = Append(produced, SelectSpeakerEvent(name))
  /\ selectCalls' = selectCalls + 2
  /\ teamPhase' = "respond"
  /\ UNCHANGED <<auxVars, cfg, specInput, parsed, factoryCalls, setupError, pc,
                 participants, taken, delivered, pending, turnCount,
                 invocations, checkpointCalls, memStore, failure, outcome, sig>>

\* Step 2: one call to the selection model names the next speaker.
TeamSelect ==
  /\ TeamRuns
  /\ teamPhase = "select"
  /\ ~BudgetSpent(TeamMaxTurns(cfg), turnCount)
  /\ turnCount < TurnCap
  /\ \E name \in Range(participants) :
       /\ speaker' = name
       /\ produced' = Append(produced, SelectSpeakerEvent(name))
  /\ selectCalls' = selectCalls + 1
  /\ teamPhase' = "respond"
  /\ UNCHANGED <<auxVars, cfg, specInput, parsed, factoryCalls, setupError, pc, participants, taken, delivered, pending, turnCount,
                 invocations, checkpointCalls, memStore, failure, outcome, sig>>

\* Step 2 with a single candidate (spec 4.3, edge cases): the selection call
\* may be skipped and the one participant chosen.
TeamSelectSkipped ==
  /\ TeamRuns
  /\ teamPhase = "select"
  /\ ~BudgetSpent(TeamMaxTurns(cfg), turnCount)
  /\ turnCount < TurnCap
  /\ Len(participants) = 1
  /\ speaker' = participants[1]
  /\ produced' = Append(produced, SelectSpeakerEvent(participants[1]))
  /\ teamPhase' = "respond"
  /\ UNCHANGED <<auxVars, cfg, specInput, parsed, factoryCalls, setupError, pc,
                 participants, taken, delivered, pending, turnCount, selectCalls,
                 invocations, checkpointCalls, memStore, failure, outcome, sig>>

\* Step 2, failing: the selection call raises or names no candidate.
TeamSelectFails ==
  /\ TeamRuns
  /\ teamPhase = "select"
  /\ ~BudgetSpent(TeamMaxTurns(cfg), turnCount)
  /\ turnCount < TurnCap
  /\ selectCalls' = selectCalls + 1
  /\ produced' = Append(produced, GroupChatError("selection"))
  /\ teamPhase' = "failed"
  /\ UNCHANGED <<auxVars, cfg, specInput, parsed, factoryCalls, setupError, pc, participants, taken, delivered, pending, turnCount,
                 invocations, speaker, checkpointCalls, memStore, failure,
                 outcome, sig>>

\* Steps 3 to 5: the speaker responds (its tool events first, then its
\* message), the turn is counted and the termination evaluator is applied to
\* the final message.
TeamRespond ==
  /\ TeamRuns
  /\ teamPhase = "respond"
  /\ \E content \in Contents, tools \in BOOLEAN :
       LET msg == TextMessage(speaker, content)
           turn == (IF tools THEN <<ToolCallRequestEvent(speaker),
                                    ToolCallExecutionEvent(speaker)>>
                             ELSE <<>>) \o <<msg>>
           history == produced \o turn
           cond == TerminationCondition(cfg)
       IN IF Evaluate(cond, msg)
            THEN /\ produced' = Append(history, FinalEvent(history, StopReasonMatched(cond)))
                 /\ teamPhase' = "finished"
            ELSE /\ produced' = history
                 /\ teamPhase' = "select"
  /\ invocations' = invocations + 1
  /\ turnCount' = turnCount + 1
  /\ UNCHANGED <<auxVars, cfg, specInput, parsed, factoryCalls, setupError, pc, participants, taken, delivered, pending, selectCalls,
                 speaker, checkpointCalls, memStore, failure, outcome, sig>>

\* Step 3, failing: the participant's response call raises.
TeamRespondFails ==
  /\ TeamRuns
  /\ teamPhase = "respond"
  /\ invocations' = invocations + 1
  /\ produced' = Append(produced, GroupChatError("participant"))
  /\ teamPhase' = "failed"
  /\ UNCHANGED <<auxVars, cfg, specInput, parsed, factoryCalls, setupError, pc, participants, taken, delivered, pending, turnCount,
                 selectCalls, speaker, checkpointCalls, memStore, failure,
                 outcome, sig>>

\* Turns past the horizon of the model (TurnCap turns are recorded): a team
\* whose budget is not spent keeps selecting and invoking participants whose
\* messages do not match the termination condition; these turns are taken
\* but no longer recorded.
TeamSelectBeyond ==
  /\ TeamRuns
  /\ teamPhase = "select"
  /\ ~BudgetSpent(TeamMaxTurns(cfg), turnCount)
  /\ turnCount = TurnCap
  /\ \E name \in Range(participants) : speaker' = name
  /\ teamPhase' = "respond_beyond"
  /\ UNCHANGED <<auxVars, cfg, specInput, parsed, factoryCalls, setupError, pc, participants, produced, taken, delivered, pending,
                 turnCount, selectCalls, invocations, checkpointCalls, memStore,
                 failure, outcome, sig>>

TeamRespondBeyond ==
  /\ TeamRuns
  /\ teamPhase = "respond_beyond"
  /\ teamPhase' = "select"
  /\ UNCHANGED <<auxVars, cfg, specInput, parsed, factoryCalls, setupError, pc, participants, produced, taken, delivered, pending,
                 turnCount, selectCalls, invocations, speaker, checkpointCalls,
                 memStore, failure, outcome, sig>>

\* ------------------------------------------------ OrchestratorAgent.run

Signal(where) ==
  [seen |-> TRUE, where |-> where, phase |-> teamPhase,
   turns |-> turnCount, inv |-> invocations]

\* console_input_func: KeyboardInterrupt while user_proxy waits for input is
\* caught and "BYE" is returned as the user's input; the turn then ends as
\* any other turn of user_proxy does.
ConsoleInputInterrupted ==
  /\ TeamRuns
  /\ teamPhase = "respond"
  /\ speaker = "user_proxy"
  /\ ~sig.seen
  /\ sig' = Signal("input")
  /\ LET msg == TextMessage(speaker, <<"BYE">>)
         history == Append(produced, msg)
         cond == TerminationCondition(cfg)
     IN IF Evaluate(cond, msg)
          THEN /\ produced' = Append(history, FinalEvent(history, StopReasonMatched(cond)))
               /\ teamPhase' = "finished"
          ELSE /\ produced' = history
               /\ teamPhase' = "select"
  /\ invocations' = invocations + 1
  /\ turnCount' = turnCount + 1
  /\ UNCHANGED <<auxVars, cfg, specInput, parsed, factoryCalls, setupError, pc,
                 participants, taken, delivered, pending, selectCalls, speaker,
                 checkpointCalls, memStore, failure, outcome>>

\* `async for event in team.run_stream(task)`: run() receives the next event.
\* A TaskResult starts the checkpoint; any other event is yielded as it is;
\* an error raised by the team is not caught (only KeyboardInterrupt is) and
\* leaves run().
RunTake ==
  /\ pc = "awaiting"
  /\ taken < Len(produced)
  /\ taken' = taken + 1
  /\ LET event == produced[taken + 1] IN
       CASE event.kind = "Error" ->
              /\ pc' = "raised"
              /\ failure' = event.source
              /\ outcome' = "Failed"
              /\ UNCHANGED <<delivered, pending, checkpointCalls>>
         [] IsTaskResult(event) ->
              /\ pc' = "saving"
              /\ pending' = <<event>>
              /\ checkpointCalls' = checkpointCalls + 1
              /\ UNCHANGED <<delivered, failure, outcome>>
         [] OTHER ->
              /\ pc' = "yielded"
              /\ delivered' = Yield(delivered, event)
              /\ UNCHANGED <<pending, checkpointCalls, failure, outcome>>
  /\ UNCHANGED <<auxVars, cfg, specInput, parsed, factoryCalls, setupError, participants, produced, teamPhase, turnCount, selectCalls,
                 invocations, speaker, memStore, sig>>

\* Does _save_to_interaction_memory reach create_memory().add(...) ?
WritesMemory(task_result, parts) ==
  /\ GetInteractionMemoryAgent(parts) # {}
  /\ MessagesContent(task_result.messages) # <<>>

\* _save_to_interaction_memory returns (after the write, when there is one),
\* then run() yields the TaskResult.
SaveAndYield ==
  /\ pc = "saving"
  /\ LET task_result == pending[1] IN
       /\ memStore' = IF WritesMemory(task_result, participants)
                        THEN Append(memStore, MemoryContent(task_result))
                        ELSE memStore
       /\ delivered' = Yield(delivered, task_result)
  /\ pending' = <<>>
  /\ pc' = "yielded"
  /\ outcome' = "Completed"
  /\ UNCHANGED <<auxVars, cfg, specInput, parsed, factoryCalls, setupError, participants, produced, taken, teamPhase, turnCount,
                 selectCalls, invocations, speaker, checkpointCalls, failure, sig>>

\* create_memory() or its add() raises: nothing in
\* _save_to_interaction_memory or in run() catches it.
SaveRaises ==
  /\ pc = "saving"
  /\ WritesMemory(pending[1], participants)
  /\ pc' = "raised"
  /\ pending' = <<>>
  /\ failure' = "memory"
  /\ outcome' = "Failed"
  /\ UNCHANGED <<auxVars, cfg, specInput, parsed, factoryCalls, setupError, participants, produced, taken, delivered, teamPhase,
                 turnCount, selectCalls, invocations, speaker, checkpointCalls,
                 memStore, sig>>

\* The team stream is exhausted: the async for ends and run() returns.
RunFinish ==
  /\ pc = "awaiting"
  /\ taken = Len(produced)
  /\ teamPhase = "finished"
  /\ pc' = "done"
  /\ UNCHANGED <<auxVars, cfg, specInput, parsed, factoryCalls, setupError, participants, produced, taken, delivered, pending,
                 teamPhase, turnCount, selectCalls, invocations, speaker,
                 checkpointCalls, memStore, failure, outcome, sig>>

\* KeyboardInterrupt raised while run() executes inside its try block
\* (waiting for the team, or writing the checkpoint): the handler yields the
\* interruption TaskResult.  The exception has unwound the team stream.  An
\* interrupt during the checkpoint arrives before or after the write.
RunInterrupted ==
  /\ pc \in {"awaiting", "saving"}
  /\ \/ memStore' = memStore
     \/ /\ pc = "saving"
        /\ WritesMemory(pending[1], participants)
        /\ memStore' = Append(memStore, MemoryContent(pending[1]))
  /\ delivered' = Yield(delivered, InterruptResult)
  /\ pc' = "yielded_in_handler"
  /\ pending' = <<>>
  /\ teamPhase' = "aborted"
  /\ outcome' = IF outcome = "Running" THEN "Interrupted" ELSE outcome
  /\ sig' = IF sig.seen THEN sig ELSE Signal("run")
  /\ UNCHANGED <<auxVars, cfg, specInput, parsed, factoryCalls, setupError, participants, produced, taken, turnCount, selectCalls,
                 invocations, speaker, checkpointCalls, failure>>

\* ---------------------------------------------------- orchestrator/cli.py

LastDelivered == delivered[Len(delivered)]

\* The consumer has handled the event and asks for the next one.
\* run_task_with_streaming breaks on a TaskResult, interactive_session keeps
\* iterating.
ConsumerNext ==
  /\ pc \in {"yielded", "yielded_in_handler"}
  /\ pc' = IF IsTaskResult(LastDelivered) /\ Mode(cfg) = "single" THEN "closed"
           ELSE IF pc = "yielded_in_handler" THEN "done"
           ELSE "awaiting"
  /\ UNCHANGED <<auxVars, cfg, specInput, parsed, factoryCalls, setupError, participants, produced, taken, delivered, pending,
                 teamPhase, turnCount, selectCalls, invocations, speaker,
                 checkpointCalls, memStore, failure, outcome, sig>>

\* KeyboardInterrupt raised while the consumer handles an event (run() is
\* suspended at a yield): the consumer's own handler catches it and the
\* iteration is abandoned.
ConsumerInterrupted ==
  /\ pc \in {"yielded", "yielded_in_handler"}
  /\ pc' = "abandoned"
  /\ outcome' = IF outcome = "Running" THEN "Interrupted" ELSE outcome
  /\ sig' = IF sig.seen THEN sig ELSE Signal("consumer")
  /\ UNCHANGED <<auxVars, cfg, specInput, parsed, factoryCalls, setupError, participants, produced, taken, delivered, pending,
                 teamPhase, turnCount, selectCalls, invocations, speaker,
                 checkpointCalls, memStore, failure>>

Next ==
  \/ RunStart
  \/ RunSetupFails
  \/ TeamBudget
  \/ TeamSelect
  \/ TeamSelectSkipped
  \/ TeamSelectFails
  \/ TeamRespond
  \/ TeamRespondFails
  \/ ConsoleInputInterrupted
  \/ TeamSelectBeyond
  \/ TeamRespondBeyond
  \/ RunTake
  \/ SaveAndYield
  \/ SaveRaises
  \/ RunFinish
  \/ RunInterrupted
  \/ ConsumerNext
  \/ ConsumerInterrupted

Spec == Init /\ [][Next]_vars

\* The parser on its own: any string over the alphabet is parsed once.
SpecStrings == UNION { [1..n -> Chars] : n \in 0..MaxSpecLen }

ParserInit ==
  /\ specInput \in SpecStrings
  /\ parsed = <<>>
  /\ factoryCalls = <<>>
  /\ setupError = NoError
  /\ cfg = [max_turns |-> None, participants |-> <<SpecWorker>>,
            enable_user_proxy |-> FALSE]
  /\ pc = "idle"
  /\ participants = <<>>
  /\ produced = <<>>
  /\ taken = 0
  /\ delivered = <<>>
  /\ pending = <<>>
  /\ teamPhase = "idle"
  /\ turnCount = 0
  /\ selectCalls = 0
  /\ invocations = 0
  /\ speaker = ""
  /\ checkpointCalls = 0
  /\ memStore = <<>>
  /\ failure = "none"
  /\ outcome = "Idle"
  /\ sig = [seen |-> FALSE, where |-> "", phase |-> "", turns |-> 0, inv |-> 0]
  /\ AuxIdle

ParseStep ==
  /\ parsed = <<>>
  /\ parsed' = <<ParseParticipantSpec(specInput)>>
  /\ UNCHANGED <<auxVars, cfg, factoryCalls, setupError, specInput, pc, participants, produced, taken, delivered,
                 pending, teamPhase, turnCount, selectCalls, invocations,
                 speaker, checkpointCalls, memStore, failure, outcome, sig>>

ParserNext == ParseStep

ParserSpec == ParserInit /\ [][ParserNext]_vars

\* The orchestrator and its parser at rest.
OrchIdle ==
  /\ cfg = [max_turns |-> None, participants |-> <<SpecWorker>>,
            enable_user_proxy |-> FALSE]
  /\ pc = "idle"
  /\ participants = <<>>
  /\ produced = <<>>
  /\ taken = 0
  /\ delivered = <<>>
  /\ pending = <<>>
  /\ teamPhase = "idle"
  /\ turnCount = 0
  /\ selectCalls = 0
  /\ invocations = 0
  /\ speaker = ""
  /\ checkpointCalls = 0
  /\ memStore = <<>>
  /\ failure = "none"
  /\ outcome = "Idle"
  /\ sig = [seen |-> FALSE, where |-> "", phase |-> "", turns |-> 0, inv |-> 0]
  /\ specInput = <<>>
  /\ parsed = <<>>
  /\ factoryCalls = <<>>
  /\ setupError = NoError

\* ---------------------------------------------------------------------
\* Repository teams and their TODO lists: each coordinator is a repository
\* team built for a repository directory; the task organizer's tools act
\* on TODO-AI.md in that directory.

TodoInit ==
  /\ OrchIdle
  /\ \E old \in {NoFile, StaleFile} : fs = [p \in Paths |-> IF p = "repoA" THEN old ELSE NoFile]
  /\ \E other \in Paths : repoPath = [c \in Coordinators |-> IF c = 1 THEN "repoA" ELSE other]
  /\ created = {}
  /\ cwd = "launch"
  /\ log = [p \in Paths |-> <<>>]
  /\ lastCall = NoCall
  /\ RepoTeamIdle
  /\ ConfigIdle
  /\ CalendarIdle

\* Tasks added to the TODO files that exist.
Logged == Len(log["repoA"]) + Len(log["repoB"])

Call(who, op, n, result) == [who |-> who, op |-> op, n |-> n, result |-> result]

\* RepositoryParser.__init__ (the part after the index is set up): the
\* process changes its working directory to the repository.  The team builds
\* its repository specialist before its task organizer.
RepositoryParserInit(c) ==
  /\ c \notin created
  /\ cwd # repoPath[c]
  /\ cwd' = repoPath[c]
  /\ lastCall' = Call(c, "RepositoryParser", 0, "ok")
  /\ UNCHANGED <<orchVars, rteamVars, cfgVars, calVars, fs, repoPath, created, log>>

\* task_organizer.create_agent: a TodoManager for the working directory, the
\* previous TODO file removed, the initial task added.
CreateTaskOrganizer(c) ==
  /\ c \notin created
  /\ LET p == repoPath[c]
         removed == DeleteTodoFile(fs[p])
         added == AddTodo(removed.file, InitialTask)
     IN /\ fs' = [fs EXCEPT ![p] = added.file]
        /\ log' = [log EXCEPT ![p] = <<[task |-> InitialTask, done |-> FALSE]>>]
  /\ created' = created \cup {c}
  /\ lastCall' = Call(c, "create_agent", 0, "created")
  /\ UNCHANGED <<orchVars, rteamVars, cfgVars, calVars, repoPath, cwd>>

\* The task organizer calls its add_todo tool.
CallAddTodo(c) ==
  /\ c \in created
  /\ Logged < MaxTasks
  /\ \E task \in Tasks :
       LET p == repoPath[c]
           r == AddTodo(fs[p], task)
       IN /\ fs' = [fs EXCEPT ![p] = r.file]
          /\ log' = [log EXCEPT ![p] = Append(@, [task |-> task, done |-> FALSE])]
          /\ lastCall' = Call(c, "add_todo", 0, r.result)
  /\ UNCHANGED <<orchVars, rteamVars, cfgVars, calVars, repoPath, created, cwd>>

\* The task organizer calls its mark_task_done tool.
CallMarkTaskDone(c) ==
  /\ c \in created
  /\ \E n \in 0..(MaxTasks + 2) :
       LET p == repoPath[c]
           r == MarkTaskDone(fs[p], n)
       IN /\ fs' = [fs EXCEPT ![p] = r.file]
          /\ log' = [log EXCEPT ![p] =
                       IF r.result = "marked" /\ n <= Len(@)
                         THEN [@ EXCEPT ![n].done = TRUE] ELSE @]
          /\ lastCall' = Call(c, "mark_task_done", n, r.result)
  /\ UNCHANGED <<orchVars, rteamVars, cfgVars, calVars, repoPath, created, cwd>>

\* finalize_and_terminate: the TODO file is deleted, "TERMINATE" returned.
FinalizeAndTerminate(c) ==
  /\ c \in created
  /\ LET p == repoPath[c]
     IN /\ fs' = [fs EXCEPT ![p] = DeleteTodoFile(fs[p]).file]
        /\ log' = [log EXCEPT ![p] = <<>>]
  /\ lastCall' = Call(c, "finalize_and_terminate", 0, "TERMINATE")
  /\ UNCHANGED <<orchVars, rteamVars, cfgVars, calVars, repoPath, created, cwd>>

TodoNext ==
  \E c \in Coordinators :
    \/ RepositoryParserInit(c)
    \/ CreateTaskOrganizer(c)
    \/ CallAddTodo(c)
    \/ CallMarkTaskDone(c)
    \/ FinalizeAndTerminate(c)

TodoSpec == TodoInit /\ [][TodoNext]_vars

\* ---------------------------------------------------------------------
\* repository_team/agent.py: the team create_agent builds and its first turns.

\* The participant the selector prompt's PRIORITY RULE tells the model to
\* select first.
PriorityTarget == "task_organizer_assistant"

\* The names of the agents create_agent puts in the team, in order: task
\* organizer, coding specialist, git agent, repository specialist.
RepositoryTeamParticipants ==
  <<"task_organizer", "coding_specialist", "git_assistant", "repository_specialist">>

\* What the selection model may answer: a candidate, or the name the prompt
\* told it to put first.
ModelAnswers == Range(RepositoryTeamParticipants) \cup {PriorityTarget}

RepoTeamInit ==
  /\ OrchIdle
  /\ TodoIdle
  /\ RepoTeamIdle
  /\ ConfigIdle
  /\ CalendarIdle

\* create_agent: the participants and the SelectorGroupChat over them; the
\* selector is given a prompt and no selection function.
RepoTeamCreate ==
  /\ rtPhase = "absent"
  /\ rtParticipants' = RepositoryTeamParticipants
  /\ rtPhase' = "select"
  /\ UNCHANGED <<orchVars, todoVars, cfgVars, calVars, rtSelected, rtHistory>>

\* Turn Selector (spec 4.3) without an override: the model is asked once and
\* its answer must be a candidate name.
RepoTeamSelect ==
  /\ rtPhase = "select"
  /\ Len(rtHistory) < TurnCap
  /\ \E answer \in ModelAnswers :
       /\ answer \in Range(rtParticipants)
       /\ rtSelected' = Append(rtSelected, answer)
  /\ rtPhase' = "respond"
  /\ UNCHANGED <<orchVars, todoVars, cfgVars, calVars, rtParticipants, rtHistory>>

\* The model's answer names no candidate: SelectionError, the team fails.
RepoTeamSelectFails ==
  /\ rtPhase = "select"
  /\ Len(rtHistory) < TurnCap
  /\ \E answer \in ModelAnswers : answer \notin Range(rtParticipants)
  /\ rtPhase' = "failed"
  /\ UNCHANGED <<orchVars, todoVars, cfgVars, calVars, rtParticipants, rtSelected, rtHistory>>

\* The selected participant responds; TextMentionTermination("TERMINATE")
\* ends the conversation.
RepoTeamRespond ==
  /\ rtPhase = "respond"
  /\ \E content \in Contents :
       LET msg == TextMessage(rtSelected[Len(rtSelected)], content)
       IN /\ rtHistory' = Append(rtHistory, msg)
          /\ rtPhase' = IF Contains(content, "TERMINATE") THEN "finished"
                                                           ELSE "select"
  /\ UNCHANGED <<orchVars, todoVars, cfgVars, calVars, rtParticipants, rtSelected>>

RepoTeamNext ==
  \/ RepoTeamCreate
  \/ RepoTeamSelect
  \/ RepoTeamSelectFails
  \/ RepoTeamRespond

RepoTeamSpec == RepoTeamInit /\ [][RepoTeamNext]_vars

\* ---------------------------------------------------------------------
\* core/config: ConfigFileManager, ConfigValidator, ModelClientFactory and
\* the ConfigManager over them.

Loaded(raised, config) == [raised |-> raised, config |-> config]

\* ConfigFileManager.load_config: the file must exist and hold a
\* RobotsixAgentsConfig.
FileLoadConfig(file) ==
  IF ~file.exists THEN Loaded("ConfigFileNotFoundError", NoConfig)
  ELSE IF file.default_model_provider = NotAComponent
    THEN Loaded("ValidationError", NoConfig)
  ELSE Loaded("", file)

\* ConfigValidator.validate_agent_config
ValidateAgentConfig(config) ==
  IF "model_provider" \in DOMAIN config /\ ~Importable(config["model_provider"])
    THEN "ConfigValidationError" ELSE ""

\* ConfigValidator.validate_full_config
ValidateFullConfig(config) ==
  IF ~Importable(config.default_model_provider) THEN "ConfigValidationError"
  ELSE IF \E a \in DOMAIN config.agents :
            ValidateAgentConfig(config.agents[a]) # ""
    THEN "ConfigValidationError"
  ELSE ""

\* ConfigManager.load_config: load, then validate.
LoadConfig(file) ==
  LET config == FileLoadConfig(file)
  IN IF config.raised # "" THEN config
     ELSE Loaded(ValidateFullConfig(config.config), config.config)

\* Mutation of CreateDefaultConfig: an existing file is overwritten without
\* force too.
CreateDefaultConfigAlways(file, force, defaults) ==
  ConfigOnDisk(DefaultProvider,
               [a \in { n \in AgentNames : defaults[n] # EmptyDict } |-> defaults[a]])

\* ConfigFileManager.create_default_config: the model's defaults with every
\* agent's non-empty package defaults, written when no file exists or
\* force is set.
CreateDefaultConfig(file, force, defaults) ==
  IF ~file.exists \/ force
    THEN ConfigOnDisk(DefaultProvider,
           [a \in { n \in AgentNames : defaults[n] # EmptyDict } |-> defaults[a]])
    ELSE file

Updated(file, raised, config) ==
  [file |-> file, raised |-> raised, config |-> config]

\* ConfigFileManager.update_config: load (creating the default file when
\* none exists), overlay the updates, build the model, save.
FileUpdateConfig(file, updates, defaults) ==
  LET base == IF FileLoadConfig(file).raised = "ConfigFileNotFoundError"
                THEN CreateDefaultConfig(file, FALSE, defaults) ELSE file
      config == FileLoadConfig(base)
  IN IF config.raised # "" THEN Updated(base, config.raised, NoConfig)
     ELSE LET provider == IF "default_model_provider" \in DOMAIN updates
                            THEN updates["default_model_provider"]
                            ELSE config.config.default_model_provider
              agents == IF "agents" \in DOMAIN updates
                          THEN updates["agents"] ELSE config.config.agents
          IN IF provider = NotAComponent
               THEN Updated(base, "ValidationError", NoConfig)
               ELSE Updated(ConfigOnDisk(provider, agents), "",
                            ConfigOnDisk(provider, agents))

\* ConfigManager.update_config: the file manager updates and saves, then the
\* validator checks what was saved.
UpdateConfig(file, updates, defaults) ==
  LET updated_config == FileUpdateConfig(file, updates, defaults)
  IN IF updated_config.raised # "" THEN updated_config
     ELSE Updated(updated_config.file, ValidateFullConfig(updated_config.config),
                  updated_config.config)

\* ModelClientFactory.get_model_client: the provider of the agent's entry in
\* the loaded configuration when it has one, the default provider otherwise;
\* a client is identified by the provider it was built from.
GetModelClient(config, agent_name) ==
  IF /\ agent_name \in DOMAIN config.agents
     /\ "model_provider" \in DOMAIN config.agents[agent_name]
    THEN config.agents[agent_name]["model_provider"]
    ELSE config.default_model_provider

\* get_agent_config: merged_config.update(user_agent_config)
MergedConfig(defaults, user) ==
  [k \in DOMAIN defaults \cup DOMAIN user |->
     IF k \in DOMAIN user THEN user[k] ELSE defaults[k]]

AgentConfig(raised, config, client) ==
  [raised |-> raised, config |-> config, client |-> client]

\* ConfigManager.get_agent_config
GetAgentConfig(file, defaults, agent_name) ==
  LET config == LoadConfig(file)
  IN IF config.raised # "" THEN AgentConfig(config.raised, EmptyDict, "")
     ELSE LET agents_dict == config.config.agents
              user_agent_config == IF agent_name \in DOMAIN agents_dict
                                     THEN agents_dict[agent_name] ELSE EmptyDict
              merged_config == MergedConfig(defaults[agent_name], user_agent_config)
          IN IF ValidateAgentConfig(merged_config) # ""
               THEN AgentConfig("ConfigValidationError", EmptyDict, "")
               ELSE AgentConfig("", merged_config,
                                GetModelClient(config.config, agent_name))

\* What update_config may be given.
Updates ==
  { [k \in {"default_model_provider"} |-> x] :
      x \in {CustomProvider, MissingProvider, NotAComponent} }
    \cup { [k \in {"agents"} |-> a] : a \in UserAgents }

CfgCall(op, arg, raised, config, client) ==
  [op |-> op, arg |-> arg, raised |-> raised, config |-> config, client |-> client]

ConfigInit ==
  /\ OrchIdle
  /\ TodoIdle
  /\ RepoTeamIdle
  /\ CalendarIdle
  /\ configFile \in {NoConfig} \cup
       { ConfigOnDisk(provider, agents) :
           provider \in {DefaultProvider, CustomProvider, MissingProvider},
           agents \in UserAgents }
  /\ pkgDefaults \in [AgentNames -> PackageDefaultValues]
  /\ cfgCall = NoCfgCall

CallCreateDefaultConfig ==
  /\ \E force \in BOOLEAN :
       /\ configFile' = CreateDefaultConfig(configFile, force, pkgDefaults)
       /\ cfgCall' = CfgCall("create_default_config",
                             IF force THEN "force" ELSE "", "", EmptyDict, "")
  /\ UNCHANGED <<orchVars, todoVars, rteamVars, calVars, pkgDefaults>>

CallUpdateConfig ==
  /\ \E updates \in Updates :
       LET r == UpdateConfig(configFile, updates, pkgDefaults)
       IN /\ configFile' = r.file
          /\ cfgCall' = CfgCall("update_config", "", r.raised, EmptyDict, "")
  /\ UNCHANGED <<orchVars, todoVars, rteamVars, calVars, pkgDefaults>>

CallLoadConfig ==
  /\ cfgCall' = CfgCall("load_config", "", LoadConfig(configFile).raised,
                        EmptyDict, "")
  /\ UNCHANGED <<orchVars, todoVars, rteamVars, calVars, pkgDefaults, configFile>>

CallGetAgentConfig ==
  /\ \E agent_name \in AgentNames :
       LET r == GetAgentConfig(configFile, pkgDefaults, agent_name)
       IN cfgCall' = CfgCall("get_agent_config", agent_name, r.raised,
                             r.config, r.client)
  /\ UNCHANGED <<orchVars, todoVars, rteamVars, calVars, pkgDefaults, configFile>>

ConfigNext ==
  \/ CallCreateDefaultConfig
  \/ CallUpdateConfig
  \/ CallLoadConfig
  \/ CallGetAgentConfig

ConfigSpec == ConfigInit /\ [][ConfigNext]_vars

\* ---------------------------------------------------------------------
\* calendar_task/tools.py: get_events_period

CalInit ==
  /\ OrchIdle
  /\ TodoIdle
  /\ RepoTeamIdle
  /\ ConfigIdle
  /\ now \in { DateTime(date, time) :
                 date \in { d \in Years \X (1..12) \X (1..31) :
                              d[3] <= DaysIn(d[1], d[2]) },
                 time \in Times }
  /\ period = NoPeriod

\* datetime.now(tz) moves on.
ClockTick ==
  /\ PlusOneDay(now).date[1] \in Years
  /\ \E time \in Times : now' = DateTime(PlusOneDay(now).date, time)
  /\ UNCHANGED <<orchVars, todoVars, rteamVars, cfgVars, period>>

GetEventsPeriod ==
  /\ period' = ThisMonth(now)
  /\ UNCHANGED <<orchVars, todoVars, rteamVars, cfgVars, now>>

CalNext ==
  \/ ClockTick
  \/ GetEventsPeriod

CalSpec == CalInit /\ [][CalNext]_vars

TodoTypeOK ==
  /\ \A p \in Paths : fs[p].exists \in BOOLEAN
  /\ created \subseteq Coordinators
  /\ cwd \in Paths \cup {"launch"}

RunOver == pc \in {"done", "raised", "closed", "abandoned", "setup_failed"}

TypeOK ==
  /\ cfg \in OrchestratorConfig
  /\ pc \in {"idle", "awaiting", "saving", "yielded", "yielded_in_handler",
             "done", "raised", "closed", "abandoned", "setup_failed"}
  /\ taken \in 0..Len(produced)
  /\ teamPhase \in {"idle", "select", "respond", "respond_beyond", "finished",
                    "failed", "aborted"}
  /\ outcome \in {"Idle", "Running", "SetupFailed", "Completed", "Failed",
                "Interrupted"}

\* ------------------------------------------------------------ liveness

\* The run when every selection call and every participant invocation
\* returns, the memory sink accepts the write and no interrupt arrives.
NextReturning ==
  \/ RunStart
  \/ TeamBudget
  \/ TeamSelect
  \/ TeamSelectSkipped
  \/ TeamRespond
  \/ TeamSelectBeyond
  \/ TeamRespondBeyond
  \/ RunTake
  \/ SaveAndYield
  \/ RunFinish
  \/ ConsumerNext

\* The event loop keeps scheduling the team, run() and the consumer.
FairSpec ==
  /\ Init
  /\ [][NextReturning]_vars
  /\ WF_vars(RunStart)
  /\ WF_vars(TeamBudget)
  /\ WF_vars(TeamSelect)
  /\ WF_vars(TeamSelectSkipped)
  /\ WF_vars(TeamRespond)
  /\ WF_vars(TeamSelectBeyond)
  /\ WF_vars(TeamRespondBeyond)
  /\ WF_vars(RunTake)
  /\ WF_vars(SaveAndYield)
  /\ WF_vars(RunFinish)
  /\ WF_vars(ConsumerNext)

\* ---------------------------------------------------------- properties

\* The final summary events delivered to the caller.
Finals == SelectSeq(delivered, IsTaskResult)

\* The events delivered before position i that are not final events.
MessagesBefore(i) ==
  SelectSeq(SubSeq(delivered, 1, i - 1), LAMBDA e : ~IsTaskResult(e))

\* a occurs in b, in the same order.
RECURSIVE IsSubsequence(_, _)
IsSubsequence(a, b) ==
  IF a = <<>> THEN TRUE
  ELSE IF b = <<>> THEN FALSE
  ELSE IF Head(a) = Head(b) THEN IsSubsequence(Tail(a), Tail(b))
  ELSE IsSubsequence(a, Tail(b))

\* C1: the stream delivered to the caller ends with exactly one final
\* summary event: at most one TaskResult is ever delivered, nothing is
\* delivered after it, and a run() that has ended (returned or raised) has
\* delivered one.
C1_ExactlyOneFinalEvent ==
  /\ Len(Finals) <= 1
  /\ \A i \in DOMAIN delivered : IsTaskResult(delivered[i]) => i = Len(delivered)
  /\ pc \in {"done", "raised"} => Len(Finals) = 1

\* C2: the checkpoint is invoked exactly once in a run that ends Completed
\* and never in a run that ends Failed or Interrupted.
C2_CheckpointOnlyOnCompleted ==
  /\ outcome = "Completed" => checkpointCalls = 1
  /\ outcome \in {"Failed", "Interrupted"} => checkpointCalls = 0

\* C3: a failure while writing the checkpoint is not propagated: nothing is
\* raised to the caller and the run still ends Completed with its final
\* event.
C3_MemoryFailureNotPropagated ==
  failure = "memory" =>
    /\ pc # "raised"
    /\ outcome = "Completed"
    /\ (RunOver => Len(Finals) = 1)

C5_RunDeliversFinalEvent ==
  [](outcome = "Running" => <>(Len(Finals) >= 1))

\* C6: when the selection step or a participant invocation raises, no
\* exception escapes run(): the run ends Failed with one terminal event.
C6_FailureDeliversTerminalEvent ==
  failure \in {"selection", "participant"} =>
    /\ pc # "raised"
    /\ Len(Finals) = 1

\* C7: an interrupt arriving after a turn has completed and before the next
\* selection call ends the run Interrupted with exactly one terminal event,
\* the system-sourced interruption note, and no participant is invoked
\* afterwards.
C7_InterruptBetweenTurns ==
  (sig.seen /\ sig.phase = "select" /\ sig.turns >= 1) =>
    /\ outcome = "Interrupted"
    /\ Len(Finals) = 1
    /\ LastDelivered = InterruptResult
    /\ invocations = sig.inv

\* C8 as stated: every final event carries, in order, every message event
\* delivered before it, together with a stop reason.
C8_EveryFinalCarriesHistory ==
  \A i \in DOMAIN delivered :
    IsTaskResult(delivered[i]) =>
      /\ IsSubsequence(MessagesBefore(i), delivered[i].messages)
      /\ delivered[i].stop_reason # ""

\* C8 amended: the final event of a run the team completed carries exactly
\* the message events delivered before it, in order, and the stop reason; the
\* final event of an interrupted run carries only the system-sourced
\* interruption note and the stop reason "User interruption".
C8_CompletedFinalCarriesHistory ==
  \A i \in DOMAIN delivered :
    IsTaskResult(delivered[i]) =>
      IF delivered[i].stop_reason = "User interruption"
        THEN delivered[i] = InterruptResult
        ELSE /\ delivered[i].messages = MessagesBefore(i)
             /\ delivered[i].stop_reason \in
                  {StopReasonMaxTurns, StopReasonMatched(TerminationCondition(cfg))}

C8_Witness ==
  /\ outcome = "Completed"
  /\ Len(delivered) >= 6
  /\ IsTaskResult(LastDelivered)
  /\ Len(LastDelivered.messages) = Len(delivered) - 1
  /\ \E i \in DOMAIN delivered : delivered[i].kind = "ToolResult"

\* The events run() relayed from the team: everything delivered except the
\* interruption result it builds itself.
Relayed == SelectSeq(delivered, LAMBDA e : e # InterruptResult)

C10_OnlyUserProxyByeTerminates ==
  cfg.enable_user_proxy =>
    /\ ~Evaluate(TerminationCondition(cfg), TextMessage("worker", <<"so", "BYE">>))
    /\ \A i \in DOMAIN produced :
         (IsTaskResult(produced[i]) /\ produced[i].stop_reason # StopReasonMaxTurns) =>
            /\ produced[i - 1].kind = "Text"
            /\ produced[i - 1].source = "user_proxy"
            /\ Contains(produced[i - 1].content, "BYE")

C10_Witness ==
  /\ cfg.enable_user_proxy
  /\ teamPhase = "finished"
  /\ produced[Len(produced)].stop_reason = StopReasonMatched(TerminationCondition(cfg))
  /\ \E i \in DOMAIN produced :
       /\ produced[i].kind = "Text"
       /\ produced[i].source = "worker"
       /\ Contains(produced[i].content, "BYE")
       /\ i + 1 < Len(produced)
       /\ produced[i + 1].kind = "SelectSpeaker"

\* The messages the participants produced in their turns, in order.
TurnMessages(events) ==
  SelectSeq(events, LAMBDA e : e.kind = "Text" /\ e.source \in Range(participants))

RECURSIVE Without(_, _)
Without(s, set) ==
  IF s = <<>> THEN <<>>
  ELSE (IF Head(s) \in set THEN <<>> ELSE <<Head(s)>>) \o Without(Tail(s), set)

RECURSIVE Concat(_)
Concat(ss) == IF ss = <<>> THEN <<>> ELSE Head(ss) \o Concat(Tail(ss))

Count(s, ch) == Cardinality({ i \in DOMAIN s : s[i] = ch })

\* The grammar name or name[args], stated on the whole string: a non-empty
\* name without brackets, alone or followed by "[", a non-empty argument
\* text without "]", and a closing "]" that ends the string.
IsName(s) == s # <<>> /\ \A i \in DOMAIN s : s[i] \notin Brackets

InGrammar(s) ==
  \/ IsName(s)
  \/ \E k \in DOMAIN s :
       /\ s[k] = "["
       /\ IsName(SubSeq(s, 1, k - 1))
       /\ k + 1 < Len(s)
       /\ s[Len(s)] = "]"
       /\ \A i \in (k + 1)..(Len(s) - 1) : s[i] # "]"

\* The position of the first "[" of s.
FirstOpen(s) == CHOOSE k \in DOMAIN s : s[k] = "[" /\ \A j \in 1..(k - 1) : s[j] # "["

\* C12: every valid specification is parsed exactly: the name is the text
\* before the bracket with its surrounding whitespace trimmed, the
\* arguments are the comma-separated pieces in order, each trimmed, none
\* lost or added.
C12_ParsesNameAndArgumentsExactly ==
  \A r \in Range(parsed) :
    LET s == Strip(specInput) IN
    InGrammar(s) =>
      /\ r.ok
      /\ IF IsName(s)
           THEN r.agent_name = s /\ r.params = <<>>
           ELSE LET k == FirstOpen(s)
                    inner == SubSeq(s, k + 1, Len(s) - 1)
                IN /\ r.agent_name = Strip(SubSeq(s, 1, k - 1))
                   /\ Len(r.params) = Count(inner, ",") + 1
                   /\ \A i \in DOMAIN r.params :
                        /\ r.params[i] = Strip(r.params[i])
                        /\ Count(r.params[i], ",") = 0
                   /\ Without(Concat(r.params), Whitespace)
                        = Without(inner, Whitespace \cup {","})

\* C13: a string outside the grammar (in particular an empty string, a
\* bracket that is not closed at the end of the string, a closing bracket
\* that was never opened, empty brackets, text after the closing bracket) is
\* rejected with an error naming the string as given, and yields no name
\* and no arguments.
Rejected(r) ==
  /\ ~r.ok
  /\ r.error = [type |-> "ValueError", names |-> specInput]
  /\ r.agent_name = <<>>
  /\ r.params = <<>>

C13_MalformedSpecRejected ==
  \A r \in Range(parsed) :
    LET s == Strip(specInput)
        n == Len(s)
    IN /\ ~InGrammar(s) => Rejected(r)
       /\ s = <<>> => Rejected(r)
       /\ (Count(s, "[") >= 1 /\ s[n] # "]") => Rejected(r)
       /\ (Count(s, "]") >= 1 /\ Count(s, "[") = 0) => Rejected(r)
       /\ (\E k \in 1..(n - 1) : s[k] = "[" /\ s[k + 1] = "]" /\ k = FirstOpen(s))
            => Rejected(r)

C13_Witness ==
  /\ specInput = <<"a", "[", "b">>
  /\ parsed # <<>>
  /\ ~parsed[1].ok
  /\ parsed[1].error.names = specInput


\* ---------------------------------------------------------------------
\* Participant setup

\* The configured entries that are not of the form name or name[args].
Malformed(spec) == spec = SpecGitUnclosed

\* The participant each well-formed, resolvable entry stands for.
ExpectedParticipant(spec) ==
  IF spec = SpecMemory THEN "interaction_memory" ELSE "worker"

\* The entries whose name has a factory behind it.
Resolvable(spec) == spec \in {SpecWorker, SpecMemory}

SetupFailed == pc = "setup_failed"

\* C14: when the configured list holds a malformed entry, at any position,
\* setup fails with the parse error and no create_agent() has been invoked
\* by then.
C14_ParseErrorBeforeAnyFactory ==
  (SetupFailed /\ \E i \in 1..Len(cfg.participants) : Malformed(cfg.participants[i]))
    => /\ setupError.type = "ValueError"
       /\ factoryCalls = <<>>

\* C15: a setup-time error aborts the run before anything is streamed: the
\* caller holds the error and no event, the team was never built, nobody was
\* selected and no participant spoke; and a run that goes on has no setup
\* error behind it.
C15_SetupErrorStreamsNothing ==
  /\ SetupFailed =>
       /\ setupError # NoError
       /\ produced = <<>> /\ taken = 0 /\ delivered = <<>>
       /\ teamPhase = "idle"
       /\ selectCalls = 0 /\ invocations = 0 /\ turnCount = 0
       /\ checkpointCalls = 0 /\ memStore = <<>>
  /\ setupError # NoError => SetupFailed

C15_Witness ==
  /\ SetupFailed
  /\ setupError.type = "ImportError"
  /\ factoryCalls = <<SpecWorker>>

\* C16: after a successful setup the participants are one per configured
\* entry, in configuration order, followed by user_proxy exactly when it is
\* enabled; with an entry that resolves to no factory, setup fails.
C16_NoParticipantDropped ==
  /\ (pc \notin {"idle", "setup_failed"}) =>
       /\ Len(participants) = Len(cfg.participants)
                                + (IF cfg.enable_user_proxy THEN 1 ELSE 0)
       /\ \A i \in 1..Len(cfg.participants) :
            /\ Resolvable(cfg.participants[i])
            /\ participants[i] = ExpectedParticipant(cfg.participants[i])
       /\ cfg.enable_user_proxy
            => participants[Len(participants)] = "user_proxy"
       /\ ~cfg.enable_user_proxy
            => \A i \in 1..Len(participants) : participants[i] # "user_proxy"
  /\ (pc # "idle" /\ \E i \in 1..Len(cfg.participants) :
                        ~Resolvable(cfg.participants[i]))
       => SetupFailed /\ setupError # NoError

C16_Witness ==
  /\ pc = "awaiting"
  /\ cfg.participants = <<SpecWorker, SpecMemory>>
  /\ participants = <<"worker", "interaction_memory", "user_proxy">>

\* Setup failed in a factory: the entries before the failing one parsed and
\* resolved, and the error is none of the resolver's own.
FactoryFailed ==
  /\ SetupFailed
  /\ factoryCalls # <<>>
  /\ setupError.type \notin {"ValueError", "ImportError", "AttributeError"}

\* C17: when a factory fails, the error the caller receives is a wrapper
\* that carries the name of the participant whose factory failed.
C17_FactoryFailureWrappedWithName ==
  FactoryFailed =>
    /\ setupError.type = "ParticipantCreationError"
    /\ setupError.names = factoryCalls[Len(factoryCalls)]


\* ---------------------------------------------------------------------
\* Checkpoint

\* The team's final event, once it has produced one.
TeamFinal == produced[Len(produced)]
TeamFinished == produced # <<>> /\ IsTaskResult(TeamFinal)

\* "source: content" for the messages of the given kinds, in history order.
Formatted(msgs, kinds) ==
  LET sel == SelectSeq(msgs, LAMBDA m : m.kind \in kinds)
  IN [i \in 1..Len(sel) |-> <<sel[i].source, ":", sel[i].content>>]

CheckpointOf(kinds, entry) ==
  /\ TeamFinished
  /\ entry.content = <<"Conversation summary:">> \o Formatted(TeamFinal.messages, kinds)
  /\ entry.stop_reason = TeamFinal.stop_reason

\* C18 as stated: the checkpoint text covers, in order, every message of the
\* final history of every kind (text, tool request, tool result), with the
\* stop reason as metadata.
C18_CheckpointCoversEveryKind ==
  \A i \in DOMAIN memStore :
    CheckpointOf({"Text", "ToolRequest", "ToolResult"}, memStore[i])

\* C18 amended: the checkpoint text covers, in order, every chat message of
\* the final history and none of the agent events (tool request, tool
\* result, speaker selection), under a summary header, with the stop reason
\* as metadata.
C18_CheckpointCoversChatMessages ==
  \A i \in DOMAIN memStore :
    /\ CheckpointOf({"Text"}, memStore[i])
    /\ memStore[i].source = "orchestrator"

C18_Witness ==
  /\ memStore # <<>>
  /\ TeamFinished
  /\ \E j \in DOMAIN TeamFinal.messages : TeamFinal.messages[j].kind = "ToolRequest"
  /\ Len(SelectSeq(TeamFinal.messages, IsChatMessage)) >= 3
  /\ Len(memStore[1].content) = 4

\* C19: without a participant named interaction_memory the checkpoint writes
\* nothing and raises nothing, and the final event still reaches the caller;
\* whatever was written was written with that participant present.
C19_NoMemoryAgentNoWrite ==
  /\ (pc \notin {"idle", "setup_failed"}
        /\ \A i \in DOMAIN participants : participants[i] # "interaction_memory")
       => /\ memStore = <<>>
          /\ failure # "memory"
          /\ (checkpointCalls >= 1 /\ pc # "saving")
               => /\ Finals # <<>>
                  /\ ~sig.seen => Finals[1] = TeamFinal
  /\ memStore # <<>>
       => \E i \in DOMAIN participants : participants[i] = "interaction_memory"

C19_Witness ==
  /\ checkpointCalls = 1
  /\ pc = "yielded"
  /\ participants = <<"worker", "user_proxy">>
  /\ Finals # <<>>
  /\ memStore = <<>>


\* ---------------------------------------------------------------------
\* Interrupt at the input prompt

InterruptedAtInput == sig.seen /\ sig.where = "input"

\* C20: after a user interrupt that arrived while user_proxy waited for
\* input, the run does not end as Completed: no final event reports a
\* token-matched completion and no checkpoint is made.
C20_InputInterruptEndsInterrupted ==
  InterruptedAtInput =>
    /\ outcome # "Completed"
    /\ checkpointCalls = 0
    /\ \A i \in DOMAIN delivered :
         IsTaskResult(delivered[i])
           => delivered[i].stop_reason # StopReasonMatched(TerminationCondition(cfg))


\* ---------------------------------------------------------------------
\* Turn count and selection calls

\* The team stands between two turns, or has completed.
AtTurnBoundary == teamPhase \in {"select", "finished"}

Actor == lastCall'.who

\* C22: no step of one coordinator changes what another coordinator reads:
\* the other's TODO file and the working directory of the process stay as
\* they were.
C22_CoordinatorsShareNoState ==
  [][\A d \in created :
       d # Actor => /\ fs'[repoPath[d]] = fs[repoPath[d]]
                    /\ cwd' = cwd]_vars

\* The lines of a TODO file that are tasks, open or done, in file order.
IsOpenItem(line) == StartsWith(line, OpenBox)
IsDoneItem(line) == StartsWith(line, DoneBox)
TaskLines(lines) ==
  SelectSeq([i \in 1..Len(lines) |-> i],
            LAMBDA i : IsOpenItem(lines[i]) \/ IsDoneItem(lines[i]))

\* The same line with its box ticked.
Ticked(line) == DoneBox \o SubSeq(line, Len(OpenBox) + 1, Len(line))

\* C25: mark_task_done(n) on an open task n within range ticks that line and
\* changes no other line; out of range, on a task already done or without a
\* file it returns a message and the file stays as it was.
C25_MarkTaskDoneFrame ==
  [][lastCall'.op = "mark_task_done" =>
       LET p == repoPath[Actor]
           n == lastCall'.n
           before == fs[p]
           after == fs'[p]
           items == TaskLines(before.lines)
           applies == /\ before.exists
                      /\ 1 <= n /\ n <= Len(items)
                      /\ IsOpenItem(before.lines[items[n]])
       IN /\ \A q \in Paths \ {p} : fs'[q] = fs[q]
          /\ IF applies
               THEN /\ lastCall'.result = "marked"
                    /\ after.exists
                    /\ Len(after.lines) = Len(before.lines)
                    /\ \A i \in 1..Len(before.lines) :
                         after.lines[i] = IF i = items[n]
                                            THEN Ticked(before.lines[i])
                                            ELSE before.lines[i]
               ELSE /\ after = before
                    /\ lastCall'.result \in {"not_found", "invalid", "already_done"}]_vars

C25_Witness ==
  /\ lastCall.op = "mark_task_done"
  /\ lastCall.result = "marked"
  /\ lastCall.n = 2
  /\ LET lines == fs[repoPath[lastCall.who]].lines
     IN /\ Len(lines) = 5
        /\ IsOpenItem(lines[3]) /\ IsDoneItem(lines[4]) /\ IsOpenItem(lines[5])

\* A task text as the single line the list is said to hold for it.
RECURSIVE OneLine(_)
OneLine(task) ==
  IF Len(task) = 1 THEN Head(task)
  ELSE Head(task) \o <<"\n">> \o OneLine(Tail(task))

\* The file the calls made so far should have left: the header once, then
\* one item per add_todo call in call order, ticked when it was marked.
ExpectedTodoFile(calls) ==
  IF calls = <<>> THEN NoFile
  ELSE File(<<HeaderLine, <<>>>> \o
            [k \in 1..Len(calls) |->
               (IF calls[k].done THEN DoneBox ELSE OpenBox)
                 \o <<" ">> \o OneLine(calls[k].task)])

\* C26: after any add_todo and mark_task_done calls on a file that started
\* absent, the file is the header once and one item per add_todo call in
\* call order, and task number k is the k-th added task.
C26_TodoFileMirrorsCalls ==
  \A c \in created :
    fs[repoPath[c]] = ExpectedTodoFile(log[repoPath[c]])

\* C27: create_agent leaves exactly one task, open, the initial one, whatever
\* the file held before; finalize_and_terminate returns "TERMINATE" and
\* leaves no file.
C27_CreateResetsFinalizeRemoves ==
  /\ lastCall.op = "create_agent" =>
       LET file == fs[repoPath[lastCall.who]]
           items == TaskLines(file.lines)
       IN /\ file.exists
          /\ Len(items) = 1
          /\ file.lines[items[1]] = OpenBox \o <<" ">> \o Head(InitialTask)
  /\ lastCall.op = "finalize_and_terminate" =>
       /\ lastCall.result = "TERMINATE"
       /\ ~fs[repoPath[lastCall.who]].exists

C27_Witness ==
  /\ lastCall.op = "create_agent"
  /\ lastCall.who = 2
  /\ repoPath[2] = "repoA"
  /\ 1 \in created
  /\ Len(fs["repoA"].lines) = 3


\* C23: in a repository team the participant the priority rule names is one
\* of the team's candidates and it is the speaker of the first turn, whatever
\* the selection model answers.
C23_TaskOrganizerSpeaksFirst ==
  /\ rtPhase # "absent" => PriorityTarget \in Range(rtParticipants)
  /\ rtSelected # <<>> => rtSelected[1] = "task_organizer"


\* ---------------------------------------------------------------------
\* Configuration

\* C24: update_config is all or nothing: when it raises, the configuration
\* file is as it was before the call, so a load_config that succeeded before
\* still succeeds.
C24_UpdateConfigAllOrNothing ==
  [][(cfgCall'.op = "update_config" /\ cfgCall'.raised # "") =>
       /\ configFile' = configFile
       /\ LoadConfig(configFile).raised = "" => LoadConfig(configFile').raised = ""]_vars

\* The file create_default_config writes: the default provider and the
\* package defaults of the agents that have any.
DefaultsFile ==
  ConfigOnDisk(DefaultProvider,
    [a \in { n \in AgentNames : DOMAIN pkgDefaults[n] # {} } |-> pkgDefaults[a]])

\* C28: create_default_config without force leaves an existing file as it
\* is and writes the defaults when there is none; with force it always
\* writes the defaults.
C28_CreateDefaultConfigFrame ==
  [][cfgCall'.op = "create_default_config" =>
       IF cfgCall'.arg = "force" \/ ~configFile.exists
         THEN configFile' = DefaultsFile
         ELSE configFile' = configFile]_vars

C28_Witness ==
  /\ cfgCall.op = "create_default_config"
  /\ cfgCall.arg = ""
  /\ configFile.exists
  /\ configFile.default_model_provider = CustomProvider

\* C29 as stated: in what get_agent_config returns, every key the user set
\* has the user's value, every key only the defaults set has the default
\* value, and the model client is built from the model_provider the agent
\* has, or from the default provider when it has none.
C29_AgentConfigMergesUserOverDefaults ==
  (cfgCall.op = "get_agent_config" /\ cfgCall.raised = "") =>
    LET agent == cfgCall.arg
        defaults == pkgDefaults[agent]
        user == IF agent \in DOMAIN configFile.agents
                  THEN configFile.agents[agent] ELSE EmptyDict
        result == cfgCall.config
    IN /\ DOMAIN result = DOMAIN defaults \cup DOMAIN user
       /\ \A k \in DOMAIN user : result[k] = user[k]
       /\ \A k \in DOMAIN defaults \ DOMAIN user : result[k] = defaults[k]
       /\ cfgCall.client = IF "model_provider" \in DOMAIN result
                             THEN result["model_provider"]
                             ELSE configFile.default_model_provider


\* ---------------------------------------------------------------------
\* Calendar

\* C30: for "this_month", whatever the current date, the call does not
\* fail and the range searched runs from the first instant of the first day
\* of the current month to the last instant of its last day.
C30_ThisMonthIsTheCurrentMonth ==
  period.called =>
    LET year == period.now.date[1]
        month == period.now.date[2]
    IN /\ ~period.raised
       /\ period.start = DateTime(<<year, month, 1>>, FirstInstant)
       /\ period.end = DateTime(<<year, month, DaysIn(year, month)>>, LastInstant)

====
